---- MODULE Spec2Model ----
(***************************************************************************)
(* Model of streamlit_app.py: a 1-D Schroedinger wave packet propagated by *)
(* a Crank-Nicolson step followed by a normalization, with a progress bar, *)
(* a final report and a custom-potential branch.                           *)
(*                                                                         *)
(* Arithmetic is exact.  A real number is a reduced fraction <<n, d>> with *)
(* d > 0.  A complex matrix entry is a pair <<re, im>> of fractions.  A    *)
(* wave function is a record [num, den, sq] standing for the amplitudes    *)
(*        psi_i = (num[i] / den) * sqrt(sq)                                *)
(* with num[i] and den Gaussian integers <<re, im>> and sq a positive      *)
(* fraction: dividing by a norm, which is the square root of a fraction,   *)
(* divides sq by the square of that norm.                                  *)
(***************************************************************************)
EXTENDS Integers, Sequences, FiniteSets, TLC

VARIABLES
    pc,            \* position of the script
    x,             \* spatial grid (line 94)
    V,             \* potential held by the driver (lines 102, 140)
    dt,            \* time step (line 106)
    time_steps,    \* number of time steps (line 105)
    psi,           \* initial wave function (lines 109-110)
    H,             \* Hamiltonian held by the driver (lines 111, 142)
    psi_evolved,   \* evolving wave function (lines 121-124)
    t,             \* loop variable of the evolution loop (line 122)
    progress_bar,  \* values passed to the progress bar (lines 120, 125)
    calls,         \* propagator / normalizer applications of the loop
    ui,            \* messages and plots sent to the page
    custom,        \* what the custom-potential widgets supply (136-140)
    ret            \* return value of a direct call of hamiltonian

vars == <<pc, x, V, dt, time_steps, psi, H, psi_evolved, t, progress_bar,
          calls, ui, custom, ret>>

----------------------------------------------------------------------------
(* Exact fractions *)

(* A sequence and a matrix with every entry evaluated *)
Tuple(s) == s \o <<>>
Dense(M) == Tuple([i \in 1..Len(M) |-> Tuple(M[i])])

Abs(n) == IF n < 0 THEN -n ELSE n

Pairs == Int \X Int

\* Operations that recur, or that take a whole array, are functions: a
\* function's argument is evaluated once, before the function is applied.
Gcd[m \in Nat, n \in Nat] == IF n = 0 THEN m ELSE Gcd[n, m % n]

Lcm[m \in Nat, n \in Nat] == (m \div Gcd[m, n]) * n

\* the fraction n / d in lowest terms with a positive denominator
Rat[n \in Int, d \in Int] ==
    LET g == Gcd[Abs(n), Abs(d)]
        s == IF d < 0 THEN -1 ELSE 1
    IN  <<(s * n) \div g, (s * d) \div g>>

RZero == <<0, 1>>
ROne == <<1, 1>>
RInt(n) == <<n, 1>>
RNeg[p \in Pairs] == <<-p[1], p[2]>>
RAdd[p \in Pairs, q \in Pairs] == Rat[p[1] * q[2] + q[1] * p[2], p[2] * q[2]]
RSub[p \in Pairs, q \in Pairs] == RAdd[p, RNeg[q]]
RMul[p \in Pairs, q \in Pairs] == Rat[p[1] * q[1], p[2] * q[2]]
RDiv[p \in Pairs, q \in Pairs] == Rat[p[1] * q[2], p[2] * q[1]]
RLess(p, q) == p[1] * q[2] < q[1] * p[2]

(* Gaussian integers <<re, im>> *)
GZero == <<0, 0>>
GAdd[u \in Pairs, v \in Pairs] == <<u[1] + v[1], u[2] + v[2]>>
GNeg[u \in Pairs] == <<-u[1], -u[2]>>
GMul[u \in Pairs, v \in Pairs] == <<u[1] * v[1] - u[2] * v[2], u[1] * v[2] + u[2] * v[1]>>
GAbsSq(u) == u[1] * u[1] + u[2] * u[2]

GSum[s \in Seq(Pairs)] == IF s = <<>> THEN GZero ELSE GAdd[Head(s), GSum[Tail(s)]]

ISum[s \in Seq(Int)] == IF s = <<>> THEN 0 ELSE Head(s) + ISum[Tail(s)]

(* Complex numbers <<re, im>> with fraction parts *)
ToComplex(r) == <<r, RZero>>
Conj(z) == <<z[1], RNeg[z[2]]>>

Complex == Pairs \X Pairs
CAdd[u \in Complex, v \in Complex] == <<RAdd[u[1], v[1]], RAdd[u[2], v[2]]>>
CSub[u \in Complex, v \in Complex] == <<RSub[u[1], v[1]], RSub[u[2], v[2]]>>
CMul[u \in Complex, v \in Complex] ==
    <<RSub[RMul[u[1], v[1]], RMul[u[2], v[2]]], RAdd[RMul[u[1], v[2]], RMul[u[2], v[1]]]>>

----------------------------------------------------------------------------
(* Constants of the program *)

\* mass = 1.0
mass == ROne

\* scipy.constants.hbar (1.054571817e-34 J s).  Its digits do not fit the
\* integers of the model; a fraction other than 1 stands for it, so that the
\* builder's convention (hbar written out) and the propagator's (hbar absent)
\* remain different quantities.
hbar == <<2, 1>>

----------------------------------------------------------------------------
(* numpy arrays: a matrix is a sequence of rows *)

np_ones(n) == Tuple([i \in 1..n |-> ROne])

\* np.diag(v, k): v on the k-th diagonal of a square matrix of zeros
np_diag[v \in Seq(Pairs), k \in Int] ==
    LET n == Len(v) + Abs(k)
    IN  Dense([i \in 1..n |-> [j \in 1..n |->
            IF j - i = k THEN v[IF k >= 0 THEN i ELSE j] ELSE RZero]])

RealMatrices == Seq(Seq(Pairs))

\* elementwise operations on matrices of one shape, and with a scalar
MatAdd[A \in RealMatrices, B \in RealMatrices] ==
    Dense([i \in 1..Len(A) |-> [j \in 1..Len(A) |-> RAdd[A[i][j], B[i][j]]]])
MatSub[A \in RealMatrices, B \in RealMatrices] ==
    Dense([i \in 1..Len(A) |-> [j \in 1..Len(A) |-> RSub[A[i][j], B[i][j]]]])
MatScale[c \in Pairs, A \in RealMatrices] ==
    Dense([i \in 1..Len(A) |-> [j \in 1..Len(A) |-> RMul[c, A[i][j]]]])
MatDiv[A \in RealMatrices, c \in Pairs] ==
    Dense([i \in 1..Len(A) |-> [j \in 1..Len(A) |-> RDiv[A[i][j], c]]])

Returned(value) == [ok |-> TRUE, value |-> value, error |-> ""]
Raised(error) == [ok |-> FALSE, value |-> <<>>, error |-> error]

\* A + B for square A and B under numpy's broadcasting: equal shapes add
\* elementwise, a 1x1 operand is stretched over the other, anything else is
\* "operands could not be broadcast together".
BroadcastAdd[A \in RealMatrices, B \in RealMatrices] ==
    LET n == Len(A)
        m == Len(B)
        At(M, i, j) == IF Len(M) = 1 THEN M[1][1] ELSE M[i][j]
        r == IF n >= m THEN n ELSE m
    IN  IF n = m \/ n = 1 \/ m = 1
        THEN Returned(Dense([i \in 1..r |-> [j \in 1..r |->
                          RAdd[At(A, i, j), At(B, i, j)]]]))
        ELSE Raised("ValueError")

\* np.linspace(x_min, x_max, N)
linspace(lo, hi, n) ==
    Tuple([i \in 1..n |-> RAdd[lo, RMul[RInt(i - 1), RDiv[RSub[hi, lo], RInt(n - 1)]]]])

\* V = 0.5 * k_potential * x**2
harmonic(k, grid) ==
    Tuple([i \in 1..Len(grid) |-> RMul[RMul[<<1, 2>>, k], RMul[grid[i], grid[i]]]])

----------------------------------------------------------------------------
(* hamiltonian(x, V) *)

\* the builder with the super-diagonal left out
hamiltonian_lower(grid, pot) ==
    LET step == RSub[grid[2], grid[1]]
        n == Len(grid)
        stencil == MatSub[np_diag[np_ones(n - 1), -1],
                          MatScale[RInt(2), np_diag[np_ones(n), 0]]]
        kinetic == MatDiv[MatScale[RNeg[RDiv[RMul[hbar, hbar], RMul[RInt(2), mass]]],
                                   stencil],
                          RMul[step, step]]
        potential == np_diag[pot, 0]
    IN  BroadcastAdd[kinetic, potential]

hamiltonian(grid, pot) ==
    LET step == RSub[grid[2], grid[1]]
        n == Len(grid)
        stencil == MatAdd[MatSub[np_diag[np_ones(n - 1), -1],
                                 MatScale[RInt(2), np_diag[np_ones(n), 0]]],
                          np_diag[np_ones(n - 1), 1]]
        kinetic == MatDiv[MatScale[RNeg[RDiv[RMul[hbar, hbar], RMul[RInt(2), mass]]],
                                   stencil],
                          RMul[step, step]]
        potential == np_diag[pot, 0]
    IN  BroadcastAdd[kinetic, potential]

----------------------------------------------------------------------------
(* Wave functions: psi_i = (num[i] / den) * sqrt(sq) *)

WaveFunction(num) == [num |-> num, den |-> <<1, 0>>, sq |-> ROne]

\* np.any(psi)
np_any(p) == \E i \in 1..Len(p.num) : p.num[i] # GZero

GcdSeq[s \in Seq(Int)] == IF s = <<>> THEN 0 ELSE Gcd[Abs(Head(s)), GcdSeq[Tail(s)]]

WaveFunctions == [num : Seq(Pairs), den : Pairs, sq : Pairs]

\* the same amplitudes with the common integer factor of num and den removed
Reduce[p \in WaveFunctions] ==
    LET n == Len(p.num)
        g == GcdSeq[Tuple([k \in 1..(2 * n + 2) |->
                 IF k <= n THEN p.num[k][1]
                 ELSE IF k <= 2 * n THEN p.num[k - n][2]
                 ELSE p.den[k - 2 * n]])]
    IN  [num |-> Tuple([i \in 1..n |-> <<p.num[i][1] \div g, p.num[i][2] \div g>>]),
         den |-> <<p.den[1] \div g, p.den[2] \div g>>,
         sq |-> p.sq]

----------------------------------------------------------------------------
(* normalize_wave_function(psi, dx) *)

\* np.sum(np.abs(psi)**2)
sum_abs_sq(p) ==
    RMul[p.sq, Rat[ISum[Tuple([i \in 1..Len(p.num) |-> GAbsSq(p.num[i])])], GAbsSq(p.den)]]

\* the norm taken without the grid spacing
norm_sq_without_dx(p, step) == sum_abs_sq(p)

\* the square of norm = np.sqrt(np.sum(np.abs(psi)**2) * dx)
norm_sq(p, step) == RMul[sum_abs_sq(p), step]

\* psi / norm, for a norm whose square is the fraction n2
divide_by_norm(p, n2) == [p EXCEPT !.sq = RDiv[p.sq, n2]]

\* the function without its guard against a zero norm
normalize_outcome_unguarded(p, step) ==
    [psi |-> divide_by_norm(p, norm_sq(p, step)), divided |-> TRUE]

\* The function with the branch it took: norm == 0 returns psi itself.
normalize_outcome(p, step) ==
    IF norm_sq(p, step) = RZero
    THEN [psi |-> p, divided |-> FALSE]
    ELSE [psi |-> divide_by_norm(p, norm_sq(p, step)), divided |-> TRUE]

normalize_wave_function(p, step) == normalize_outcome(p, step).psi

----------------------------------------------------------------------------
(* evolve_wave_function(psi, H, dt) *)

\* I = np.eye(len(psi))
np_eye(n) == Dense([i \in 1..n |-> [j \in 1..n |->
                 ToComplex(IF i = j THEN ROne ELSE RZero)]])

ComplexMatrices == Seq(Seq(Complex))

\* A - B and A + B for complex matrices of one shape
CMatSub[A \in ComplexMatrices, B \in ComplexMatrices] ==
    Dense([i \in 1..Len(A) |-> [j \in 1..Len(A) |-> CSub[A[i][j], B[i][j]]]])
CMatAdd[A \in ComplexMatrices, B \in ComplexMatrices] ==
    Dense([i \in 1..Len(A) |-> [j \in 1..Len(A) |-> CAdd[A[i][j], B[i][j]]]])

\* c * A for a complex number c and a real matrix A
CMatScale[c \in Complex, A \in RealMatrices] ==
    Dense([i \in 1..Len(A) |-> [j \in 1..Len(A) |-> CMul[c, ToComplex(A[i][j])]]])

\* 1j * dt / 2 * H
half_step(Hm, step) == CMatScale[<<RZero, RDiv[step, RInt(2)]>>, Hm]

\* a built without the imaginary unit
matrix_a_real(Hm, step) ==
    CMatSub[np_eye(Len(Hm)), CMatScale[ToComplex(RDiv[step, RInt(2)]), Hm]]

\* a = I - 1j * dt / 2 * H
matrix_a(Hm, step) == CMatSub[np_eye(Len(Hm)), half_step(Hm, step)]

\* b = I + 1j * dt / 2 * H
matrix_b(Hm, step) == CMatAdd[np_eye(Len(Hm)), half_step(Hm, step)]

LcmSeq[s \in Seq(Int)] == IF s = <<>> THEN 1 ELSE Lcm[Head(s), LcmSeq[Tail(s)]]

\* the least D for which D * M has Gaussian-integer entries
Denominator(M) ==
    LET n == Len(M)
    IN  LcmSeq[Tuple([k \in 1..(2 * n * n) |->
            LET e == ((k - 1) \div 2) % (n * n)
            IN  M[(e \div n) + 1][(e % n) + 1][((k - 1) % 2) + 1][2]])]

\* D * M as a matrix of Gaussian integers
Scaled(M, D) ==
    Dense([i \in 1..Len(M) |-> [j \in 1..Len(M) |->
        <<M[i][j][1][1] * (D \div M[i][j][1][2]),
          M[i][j][2][1] * (D \div M[i][j][2][2])>>]])

\* determinant of a matrix of Gaussian integers, by expansion along row 1
GDet[M \in Seq(Seq(Pairs))] ==
    IF Len(M) = 1 THEN M[1][1]
    ELSE LET n == Len(M)
             Minor(j) == Dense([r \in 1..(n - 1) |-> [c \in 1..(n - 1) |->
                             M[r + 1][IF c < j THEN c ELSE c + 1]]])
         IN  GSum[Tuple([j \in 1..n |->
                 GMul[IF j % 2 = 1 THEN M[1][j] ELSE GNeg[M[1][j]], GDet[Minor(j)]]])]

\* (G * psi) / D for a matrix G of Gaussian integers
scaled_matvec[G \in Seq(Seq(Pairs)), D \in Int, p \in WaveFunctions] ==
    [num |-> Tuple([i \in 1..Len(G) |->
                    GSum[Tuple([j \in 1..Len(G) |-> GMul[G[i][j], p.num[j]]])]]),
     den |-> GMul[<<D, 0>>, p.den],
     sq |-> p.sq]

\* b @ psi
matvec[M \in ComplexMatrices, p \in WaveFunctions] ==
    scaled_matvec[Scaled(M, Denominator(M)), Denominator(M), p]

\* the solution of G * y = D * rhs for a matrix G of Gaussian integers, each
\* component a quotient of determinants
cramer[G \in Seq(Seq(Pairs)), D \in Int, rhs \in WaveFunctions] ==
    LET Replaced(k) == Dense([i \in 1..Len(G) |-> [j \in 1..Len(G) |->
                           IF j = k THEN rhs.num[i] ELSE G[i][j]]])
    IN  IF GDet[G] = GZero
        THEN Raised("LinAlgError")
        ELSE Returned(Reduce[[num |-> Tuple([k \in 1..Len(G) |->
                                          GMul[<<D, 0>>, GDet[Replaced(k)]]]),
                              den |-> GMul[GDet[G], rhs.den],
                              sq |-> rhs.sq]])

\* scipy.linalg.solve(a, rhs): the solution of a * y = rhs, or LinAlgError
\* when a is singular
solve[M \in ComplexMatrices, rhs \in WaveFunctions] ==
    cramer[Scaled(M, Denominator(M)), Denominator(M), rhs]

evolve_wave_function(p, Hm, step) ==
    solve[matrix_a(Hm, step), matvec[matrix_b(Hm, step), p]]

----------------------------------------------------------------------------
(* Bounds and inputs *)

MaxSteps == 3
MaxN == 4

\* Settings of the sidebar: x_min < x_max, N >= 2, k_potential, dt
Sidebars ==
    {[x_min |-> RInt(-1), x_max |-> RInt(1), N |-> 3, k_potential |-> RInt(4), dt |-> RInt(1)],
     [x_min |-> RInt(0), x_max |-> RInt(1), N |-> 2, k_potential |-> RInt(4), dt |-> RInt(1)],
     [x_min |-> RInt(-1), x_max |-> RInt(1), N |-> 2, k_potential |-> RInt(1), dt |-> RInt(2)],
     [x_min |-> RInt(-1), x_max |-> RInt(1), N |-> 3, k_potential |-> RInt(4), dt |-> RInt(0)]}

\* initialize_wave_packet(x, x0, k0, sigma): the Gaussian packet's amplitudes
\* are transcendental in the inputs, so the packet is one of a few sampled
\* amplitude vectors; the all-zero one is the packet that underflowed.
WavePackets(n) == {WaveFunction([i \in 1..n |-> GZero]),
                   WaveFunction([i \in 1..n |-> <<1, 0>>]),
                   WaveFunction([i \in 1..n |-> <<i, 1>>])}

Array(val) == [kind |-> "array", val |-> val]
Scalar(r) == [kind |-> "scalar", val |-> <<r>>]

\* what the checkbox and eval(V_custom) supply: nothing, an exception, a
\* number, or an array of some length
Customs(n) ==
    {[use |-> FALSE, kind |-> "array", val |-> <<>>],
     [use |-> TRUE, kind |-> "raise", val |-> <<>>],
     [use |-> TRUE, kind |-> "scalar", val |-> <<(<<1, 2>>)>>]}
    \cup {[use |-> TRUE, kind |-> "array", val |-> [i \in 1..m |-> RInt(i)]] :
             m \in 0..(n + 1)}

NoWave == WaveFunction(<<>>)
NoReturn == [ok |-> FALSE, value |-> <<>>, error |-> "none"]

\* dx = x[1] - x[0]
dx == RSub[x[2], x[1]]

----------------------------------------------------------------------------
(* The script *)

Init ==
    /\ pc = "initialize"
    /\ \E s \in Sidebars :
          /\ x = linspace(s.x_min, s.x_max, s.N)
          /\ V = Array(harmonic(s.k_potential, linspace(s.x_min, s.x_max, s.N)))
          /\ dt = s.dt
          /\ psi \in WavePackets(s.N)
          /\ custom \in Customs(s.N)
    /\ time_steps \in 0..MaxSteps
    /\ H = <<>>
    /\ psi_evolved = NoWave
    /\ t = 0
    /\ progress_bar = <<>>
    /\ calls = <<>>
    /\ ui = <<>>
    /\ ret = NoReturn

Shown(kind, text, data) == [kind |-> kind, text |-> text, data |-> data]

\* a loop header that admits one iteration too many
LoopHeaderInclusive(next) == IF next <= time_steps THEN "evolve" ELSE "report"

\* for t in range(time_steps): the position after the header is evaluated
\* with the loop variable about to take the value next
LoopHeader(next) == IF next < time_steps THEN "evolve" ELSE "report"

\* lines 109-121: normalize the packet, build H, show the packet, create the
\* progress bar, copy psi
Initialize ==
    /\ pc = "initialize"
    /\ psi' = normalize_wave_function(psi, dx)
    /\ H' = hamiltonian(x, V.val).value
    /\ ui' = ui \o <<Shown("plot", "Initial Wave Function", psi'),
                     Shown("plot3d", "3D Wave Function Visualization", psi')>>
    /\ progress_bar' = <<RInt(0)>>
    /\ psi_evolved' = psi'
    /\ t' = 0
    /\ pc' = LoopHeader(0)
    /\ UNCHANGED <<x, V, dt, time_steps, calls, custom, ret>>

\* line 123: psi_evolved = evolve_wave_function(psi_evolved, H, dt)
Evolve ==
    /\ pc = "evolve"
    /\ \E r \in {evolve_wave_function(psi_evolved, H, dt)} :
           IF r.ok
           THEN /\ psi_evolved' = r.value
                /\ calls' = Append(calls, [op |-> "evolve", arg |-> psi_evolved,
                                           H |-> H, out |-> r.value])
                /\ pc' = "normalize"
                /\ ui' = ui
           ELSE /\ pc' = "crashed"
                /\ ui' = Append(ui, Shown("exception", r.error, NoWave))
                /\ UNCHANGED <<psi_evolved, calls>>
    /\ UNCHANGED <<x, V, dt, time_steps, psi, H, t, progress_bar, custom, ret>>

\* line 124: psi_evolved = normalize_wave_function(psi_evolved, dx)
Normalize ==
    /\ pc = "normalize"
    /\ psi_evolved' = normalize_wave_function(psi_evolved, dx)
    /\ calls' = Append(calls, [op |-> "normalize", arg |-> psi_evolved,
                               H |-> <<>>, out |-> psi_evolved'])
    /\ pc' = "progress"
    /\ UNCHANGED <<x, V, dt, time_steps, psi, H, t, progress_bar, ui, custom, ret>>

\* the fraction taken from the loop variable itself
fraction_from_zero(step) == Rat[step, time_steps]

\* the value passed to progress_bar.progress in the iteration with loop
\* variable step
fraction(step) == Rat[step + 1, time_steps]

\* line 125: progress_bar.progress((t + 1) / time_steps), then the loop header
Progress ==
    /\ pc = "progress"
    /\ progress_bar' = Append(progress_bar, fraction(t))
    /\ pc' = LoopHeader(t + 1)
    /\ t' = IF t + 1 < time_steps THEN t + 1 ELSE t
    /\ UNCHANGED <<x, V, dt, time_steps, psi, H, psi_evolved, calls, ui, custom, ret>>

\* lines 127-132
Report ==
    /\ pc = "report"
    /\ ui' = IF ~np_any(psi_evolved)
             THEN Append(ui, Shown("error", "Final wave function is empty.", NoWave))
             ELSE ui \o <<Shown("plot", "Final Wave Function", psi_evolved),
                          Shown("plot3d", "3D Wave Function Visualization", psi_evolved)>>
    /\ pc' = "custom"
    /\ UNCHANGED <<x, V, dt, time_steps, psi, H, psi_evolved, t, progress_bar,
                   calls, custom, ret>>

\* lines 137-147: the body of "if use_custom_potential"
ApplyCustom ==
    IF ~custom.use
    THEN UNCHANGED <<V, H, ui>>
    ELSE IF custom.kind = "raise"
    THEN \* eval raised: nothing was assigned
         /\ ui' = Append(ui, Shown("error", "Error in custom potential", NoWave))
         /\ UNCHANGED <<V, H>>
    ELSE \* V = eval(V_custom)
         /\ V' = [kind |-> custom.kind, val |-> custom.val]
         /\ IF custom.kind = "scalar"
            THEN \* len(V) raises TypeError
                 /\ ui' = Append(ui, Shown("error", "Error in custom potential", NoWave))
                 /\ H' = H
            ELSE IF Len(custom.val) = Len(x)
            THEN \E r \in {hamiltonian(x, custom.val)} :
                     IF r.ok
                     THEN /\ H' = r.value
                          /\ ui' = Append(ui, Shown("success",
                                     "Custom potential applied successfully.", NoWave))
                     ELSE /\ H' = H
                          /\ ui' = Append(ui, Shown("error",
                                     "Error in custom potential", NoWave))
            ELSE /\ ui' = Append(ui, Shown("error",
                            "Custom potential must match the spatial grid size.", NoWave))
                 /\ H' = H

\* the branch taken while the evolution loop is still running
CustomPotentialInLoop ==
    /\ pc \in {"custom", "normalize"}
    /\ pc' = IF pc = "custom" THEN "done" ELSE pc
    /\ ApplyCustom
    /\ UNCHANGED <<x, dt, time_steps, psi, psi_evolved, t, progress_bar, calls,
                   custom, ret>>

\* lines 136-147, reached after the report
CustomPotential ==
    /\ pc = "custom"
    /\ pc' = "done"
    /\ ApplyCustom
    /\ UNCHANGED <<x, dt, time_steps, psi, psi_evolved, t, progress_bar, calls,
                   custom, ret>>

Next ==
    \/ Initialize
    \/ Evolve
    \/ Normalize
    \/ Progress
    \/ Report
    \/ CustomPotential

Spec == Init /\ [][Next]_vars

\* the script runs to its end: no statement waits for anything
FairSpec == Spec /\ WF_vars(Next)

----------------------------------------------------------------------------
(* hamiltonian called directly on a grid and a potential of any length *)

PotentialValues == {RInt(-1), RInt(0), RInt(2)}

RECURSIVE Arrays(_)
Arrays(m) == IF m = 0 THEN {<<>>}
             ELSE {Append(a, v) : a \in Arrays(m - 1), v \in PotentialValues}

CallGrids == {linspace(RInt(-1), RInt(1), n) : n \in 2..MaxN}
                 \cup {linspace(RInt(0), RInt(3), n) : n \in 2..MaxN}

HamInit ==
    /\ pc = "call"
    /\ x \in CallGrids
    /\ \E m \in 0..(MaxN + 1) : m <= Len(x) + 1 /\ V \in {Array(a) : a \in Arrays(m)}
    /\ ret = NoReturn
    /\ dt = RZero
    /\ time_steps = 0
    /\ psi = NoWave
    /\ H = <<>>
    /\ psi_evolved = NoWave
    /\ t = 0
    /\ progress_bar = <<>>
    /\ calls = <<>>
    /\ ui = <<>>
    /\ custom = [use |-> FALSE, kind |-> "array", val |-> <<>>]

HamCall ==
    /\ pc = "call"
    /\ ret' = hamiltonian(x, V.val)
    /\ pc' = "returned"
    /\ UNCHANGED <<x, V, dt, time_steps, psi, H, psi_evolved, t, progress_bar,
                   calls, ui, custom>>

HamNext == HamCall

HamSpec == HamInit /\ [][HamNext]_vars

----------------------------------------------------------------------------
(* Properties *)

\* sum over i of |psi_i|^2 * dx, for psi_i = (num[i] / den) * sqrt(sq)
TotalProbability(p, step) ==
    RMul[RMul[Rat[ISum[Tuple([i \in 1..Len(p.num) |-> GAbsSq(p.num[i])])],
                  GAbsSq(p.den)],
              step],
         p.sq]

LoopLeft == pc \in {"report", "custom", "done"}
Reported == pc \in {"custom", "done"}

EmptyNotice ==
    \E k \in 1..Len(ui) : ui[k].kind = "error"
                          /\ ui[k].text = "Final wave function is empty."
FinalPlot ==
    \E k \in 1..Len(ui) : ui[k].kind = "plot" /\ ui[k].text = "Final Wave Function"
                          /\ ui[k].data = psi_evolved

\* C1: the loop runs exactly time_steps steps; each step is one propagator
\* call followed by one normalizer call on the propagator's output; a
\* normalizer's output is the next propagator's input and, after the last
\* step, the final wave function that is reported; two propagator calls never
\* follow one another.
C1_StepsAlternate ==
    /\ Len(calls) <= 2 * time_steps
    /\ \A i \in 1..Len(calls) :
          /\ calls[i].op = IF i % 2 = 1 THEN "evolve" ELSE "normalize"
          /\ i > 1 => calls[i].arg = calls[i - 1].out
    /\ LoopLeft =>
          /\ Len(calls) = 2 * time_steps
          /\ time_steps > 0 => psi_evolved = calls[2 * time_steps].out
    /\ \A k \in 1..Len(ui) :
          (ui[k].text = "Final Wave Function" /\ time_steps > 0)
              => (Len(calls) = 2 * time_steps /\ ui[k].data = calls[2 * time_steps].out)

C1_Witness ==
    /\ pc = "done"
    /\ time_steps >= 2
    /\ Len(calls) = 2 * time_steps
    /\ FinalPlot
    /\ calls[3].arg # calls[1].arg

\* C2: whenever the norm the normalizer computes is not zero (on a grid with
\* dx > 0: some amplitude is not zero), the state it returns has total
\* probability sum |psi_i|^2 * dx = 1: the initial state after its
\* normalization and the state after every step of the loop.
C2_NormPreserved ==
    /\ (pc # "initialize" /\ np_any(psi)) => TotalProbability(psi, dx) = ROne
    /\ \A i \in 1..Len(calls) :
          (calls[i].op = "normalize" /\ np_any(calls[i].arg))
              => TotalProbability(calls[i].out, dx) = ROne
    /\ (pc \in {"progress", "report", "custom", "done"} /\ np_any(psi_evolved))
          => TotalProbability(psi_evolved, dx) = ROne

C2_Witness ==
    /\ pc = "done"
    /\ time_steps >= 2
    /\ dx = RInt(2)
    /\ dt # RZero
    /\ np_any(psi_evolved)
    /\ psi.sq # ROne
    /\ calls[2].op = "normalize"
    /\ calls[2].arg = calls[1].out
    /\ TotalProbability(calls[2].out, dx) = ROne
    /\ TotalProbability(psi_evolved, dx) = ROne

\* the matrices the Crank-Nicolson scheme prescribes, in the builder's units
prescribed_A(Hm, step) ==
    CMatAdd[np_eye(Len(Hm)),
            CMatScale[<<RZero, RDiv[step, RMul[RInt(2), hbar]]>>, Hm]]
prescribed_B(Hm, step) ==
    CMatSub[np_eye(Len(Hm)),
            CMatScale[<<RZero, RDiv[step, RMul[RInt(2), hbar]]>>, Hm]]

\* C3: the matrix the propagator applies to the new state is
\* I + i*(dt/(2*hbar))*H and the one it applies to the old state is
\* I - i*(dt/(2*hbar))*H, with the hbar of the Hamiltonian builder.
C3_CrankNicolsonMatrices ==
    pc = "evolve" => /\ matrix_a(H, dt) = prescribed_A(H, dt)
                     /\ matrix_b(H, dt) = prescribed_B(H, dt)

\* C4: hamiltonian(x, V) called with a potential whose length differs from
\* the grid's raises an error and returns no matrix.
C4_MismatchRaises ==
    (pc = "returned" /\ Len(V.val) # Len(x)) => ~ret.ok

CustomFits == custom.kind = "array" /\ Len(custom.val) = Len(x)

\* C5: a custom potential that is not an array of the grid's length is
\* reported as an error and leaves both V and H as they were; one of the
\* grid's length replaces V, and H becomes the Hamiltonian of the new V.
C5_RejectedPotentialAppliesNothing ==
    [][(pc = "custom" /\ custom.use) =>
          IF CustomFits
          THEN /\ V' = Array(custom.val)
               /\ H' = hamiltonian(x, custom.val).value
          ELSE /\ V' = V
               /\ H' = H
               /\ Len(ui') = Len(ui) + 1
               /\ ui'[Len(ui')].kind = "error"]_vars

Reports == Len(progress_bar) - 1

\* C7: progress is reported once per step, after the step's normalization;
\* the k-th report is k / time_steps, so the reports lie in (0, 1], increase
\* strictly and end with 1; with time_steps = 0 nothing is reported and
\* nothing is divided by zero.
C7_ProgressFractions ==
    /\ pc # "initialize" => (Len(progress_bar) >= 1 /\ progress_bar[1] = RZero)
    /\ \A k \in 1..Reports :
          /\ progress_bar[k + 1][2] > 0
          /\ progress_bar[k + 1][1] * time_steps = k * progress_bar[k + 1][2]
          /\ RLess(RZero, progress_bar[k + 1])
          /\ ~RLess(ROne, progress_bar[k + 1])
          /\ RLess(progress_bar[k], progress_bar[k + 1])
    /\ pc # "initialize" =>
          Reports = IF pc = "progress" THEN (Len(calls) \div 2) - 1 ELSE Len(calls) \div 2
    /\ LoopLeft => /\ Reports = time_steps
                   /\ time_steps >= 1 => progress_bar[Len(progress_bar)] = ROne

C7_Witness ==
    /\ pc = "done"
    /\ time_steps >= 3
    /\ Reports = time_steps
    /\ progress_bar[2] = <<1, 3>>

\* C8: for a real potential of the grid's length the matrix hamiltonian
\* returns is Hermitian, each entry the conjugate of its transpose entry; it
\* is tridiagonal with equal sub- and super-diagonal entries.
C8_Hermitian ==
    (pc = "returned" /\ Len(V.val) = Len(x)) =>
        /\ ret.ok
        /\ Len(ret.value) = Len(x)
        /\ \A i \in 1..Len(x), j \in 1..Len(x) :
              /\ ToComplex(ret.value[i][j]) = Conj(ToComplex(ret.value[j][i]))
              /\ Abs(i - j) > 1 => ret.value[i][j] = RZero
              /\ (i < Len(x) /\ j < Len(x)) =>
                     ret.value[i][i + 1] = ret.value[j + 1][j]

C8_Witness ==
    /\ pc = "returned"
    /\ Len(x) >= 3
    /\ Len(V.val) = Len(x)
    /\ ret.ok
    /\ ret.value[1][2] # RZero
    /\ ret.value[1][1] # ret.value[2][2]

\* C9: every run leaves the loop and reaches its end without aborting, and
\* once the loop is left it has reported exactly one of the empty-result
\* notice and the final wave function, the notice exactly when every
\* amplitude of the final wave function is zero.
C9_RunCompletes ==
    /\ <>(pc = "done")
    /\ [](pc # "crashed")
    /\ [](Reported => /\ EmptyNotice # FinalPlot
                      /\ EmptyNotice <=> ~np_any(psi_evolved))
    /\ [](~Reported => (~EmptyNotice /\ ~FinalPlot))

C9_Witness ==
    /\ pc = "done"
    /\ time_steps >= 1
    /\ EmptyNotice
    /\ ~FinalPlot

\* C10: H is assigned when it is built before the loop and by the custom
\* potential branch only; the branch runs after the last step and the report,
\* so every propagation step of a run uses the H built before the loop.
C10_HamiltonianReadOnly ==
    /\ [](\A i \in 1..Len(calls) : calls[i].op = "evolve" => calls[i].H = calls[1].H)
    /\ [](pc \in {"evolve", "normalize", "progress", "report"} =>
             /\ H = hamiltonian(x, V.val).value
             /\ Len(calls) > 0 => calls[1].H = H)
    /\ [][H' # H => \/ pc = "initialize"
                    \/ /\ pc = "custom"
                       /\ Len(calls) = 2 * time_steps
                       /\ EmptyNotice \/ FinalPlot]_vars

C10_Witness ==
    /\ pc = "done"
    /\ time_steps >= 2
    /\ Len(calls) = 2 * time_steps
    /\ custom.use
    /\ CustomFits
    /\ H # calls[1].H
    /\ H = hamiltonian(x, custom.val).value

====
